---- MODULE Spec2Model ----
(***************************************************************************)
(* Model of image_generator.py: a top-level script that decodes icon.png   *)
(* with PIL and dumps it as text into icon.ppm.  One action per statement  *)
(* of the script; the output file is a sequence of characters so that the  *)
(* f-string formatting, the line count and the field count are computed,   *)
(* not assumed.                                                            *)
(***************************************************************************)
EXTENDS Integers, Sequences, FiniteSets, TLC

\* ---------------------------------------------------------------- bounds
MaxW == 3
MaxH == 2

\* Pixel values the bounded images are built from (4-band and 3-band).
Samples4 == << <<255, 0, 0, 255>>, <<10, 20, 30, 128>>, <<40, 50, 60, 7>> >>
Samples3 == << <<255, 0, 0>>, <<10, 20, 30>> >>

\* What icon.png can be on disk: absent, not an image, an image whose data
\* is cut short (recognised by Image.open, rejected by load), or a good image.
SourceKinds == { "missing", "unidentified", "truncated", "ok" }

\* Contents icon.ppm may have before the run (when it exists).
PriorTexts == { <<>>, <<"o", "l", "d", "\n">> }

VARIABLES
    icon_png,     \* the input file: [kind, size = <<W, H>>, bands, data]
    icon_ppm,     \* the output file: [exists, text] (text = seq of characters)
    prior,        \* icon_ppm as it was before the run (never changes)
    writable,     \* may icon.ppm be opened for writing
    pc,           \* next statement of the script
    err,          \* the exception that ended the run, "none" while running
    height, width,\* the script's variables of line 7
    x, y,         \* loop variables, -1 while unbound
    rbga,         \* the tuple read at line 13
    reads,        \* coordinates <<x, y>> handed to pixels[x, y], in order
    written       \* coordinates whose pixel line was written, in order

vars == << icon_png, icon_ppm, prior, writable, pc, err, height, width,
           x, y, rbga, reads, written >>

\* ------------------------------------------------------------ formatting
Digit(d) == << "0", "1", "2", "3", "4", "5", "6", "7", "8", "9" >>[d + 1]

\* str(n) for a non-negative integer, as an f-string field renders it.
RECURSIVE Str(_)
Str(n) == IF n < 10 THEN << Digit(n) >> ELSE Str(n \div 10) \o << Digit(n % 10) >>

\* The header without its tag line.
HeaderText_m(w, h) == Str(w) \o << " " >> \o Str(h) \o << "\n" >>

\* f"P3\n{width} {height}\n"
HeaderText(w, h) ==
    << "P", "3", "\n" >> \o Str(w) \o << " " >> \o Str(h) \o << "\n" >>

\* A pixel line that never subscripts index 3.
PixelFields_m == << 2, 0, 1 >>

\* The indices of the tuple the f-string of line 15 subscripts, in order.
PixelFields == << 2, 0, 1, 3 >>

\* Python index i of a tuple (TLA+ sequences start at 1).
Item(t, i) == t[i + 1]

\* A tuple subscript raises IndexError when the index is past the end.
Subscriptable(t) == \A k \in 1..Len(PixelFields) : PixelFields[k] < Len(t)

RECURSIVE JoinFields(_, _, _)
JoinFields(t, idx, k) ==
    IF k > Len(idx) THEN << >>
    ELSE (IF k > 1 THEN << " " >> ELSE << >>)
         \o Str(Item(t, idx[k])) \o JoinFields(t, idx, k + 1)

\* f"{rbga[2]} {rbga[0]} {rbga[1]} {rbga[3]}\n"
PixelText(t) == JoinFields(t, PixelFields, 1) \o << "\n" >>

\* ------------------------------------------------------------- the image
\* im.size is (width, height) in PIL.
Size(im) == im.size
TrueW == icon_png.size[1]
TrueH == icon_png.size[2]

\* pixels[x, y] is defined for 0 <= x < W and 0 <= y < H, else IndexError.
InRange(im, px, py) ==
    /\ 0 <= px /\ px < im.size[1]
    /\ 0 <= py /\ py < im.size[2]

\* The w x h raster that cycles through the samples from a starting offset,
\* so that neighbouring pixels differ in every band.
Raster(samples, w, h, offset) ==
    [ c \in (0..(w-1)) \X (0..(h-1)) |->
        samples[((c[1] + 2 * c[2] + offset) % Len(samples)) + 1] ]

Images ==
    UNION { UNION { UNION {
        { [kind |-> k, size |-> <<w, h>>, bands |-> 4,
           data |-> Raster(Samples4, w, h, o)] : o \in 1..Len(Samples4) }
        \cup
        { [kind |-> k, size |-> <<w, h>>, bands |-> 3,
           data |-> Raster(Samples3, w, h, o)] : o \in 1..Len(Samples3) }
      : k \in SourceKinds } : w \in 1..MaxW } : h \in 1..MaxH }

\* ---------------------------------------------------------------- script
\* An exception that is swallowed: the inner loop carries on.
Raise_m(e) == pc' = "for_x" /\ err' = e

\* An uncaught exception ends the script.
Raise(e) == pc' = "error" /\ err' = e

Init ==
    /\ icon_png \in Images
    /\ icon_ppm \in { [exists |-> FALSE, text |-> << >>] }
                    \cup { [exists |-> TRUE, text |-> t] : t \in PriorTexts }
    /\ prior = icon_ppm
    /\ writable \in BOOLEAN
    /\ pc = "open_image"
    /\ err = "none"
    /\ height = 0 /\ width = 0
    /\ x = -1 /\ y = -1
    /\ rbga = << >>
    /\ reads = << >>
    /\ written = << >>

\* line 3: im = Image.open('icon.png')
OpenImage ==
    /\ pc = "open_image"
    /\ IF icon_png.kind \in { "missing", "unidentified" }
       THEN Raise("decode")
       ELSE pc' = "load" /\ err' = err
    /\ UNCHANGED << icon_png, icon_ppm, prior, writable, height, width,
                    x, y, rbga, reads, written >>

\* The destination opened before the image is loaded.
Load_m ==
    /\ pc = "load"
    /\ icon_ppm' = [exists |-> TRUE, text |-> << >>]
    /\ IF icon_png.kind = "truncated"
       THEN Raise("decode")
       ELSE pc' = "open_out" /\ err' = err
    /\ UNCHANGED << icon_png, prior, writable, height, width,
                    x, y, rbga, reads, written >>

\* line 4: pixels = im.load()
Load ==
    /\ pc = "load"
    /\ IF icon_png.kind = "truncated"
       THEN Raise("decode")
       ELSE pc' = "open_out" /\ err' = err
    /\ UNCHANGED << icon_png, icon_ppm, prior, writable, height, width,
                    x, y, rbga, reads, written >>

\* line 6: outfile = open("icon.ppm", "w")  -- creates or truncates
OpenOut ==
    /\ pc = "open_out"
    /\ IF writable
       THEN /\ icon_ppm' = [exists |-> TRUE, text |-> << >>]
            /\ pc' = "unpack" /\ err' = err
       ELSE /\ Raise("open")
            /\ UNCHANGED icon_ppm
    /\ UNCHANGED << icon_png, prior, writable, height, width,
                    x, y, rbga, reads, written >>

\* line 7: height, width = im.size
Unpack ==
    /\ pc = "unpack"
    /\ height' = Size(icon_png)[1]
    /\ width' = Size(icon_png)[2]
    /\ pc' = "header"
    /\ UNCHANGED << icon_png, icon_ppm, prior, writable, err,
                    x, y, rbga, reads, written >>

\* line 9: outfile.write(f"P3\n{width} {height}\n"); the write either takes
\* the whole text or raises (destination no longer writable, disk full).
WriteHeader ==
    /\ pc = "header"
    /\ \/ /\ icon_ppm' = [icon_ppm EXCEPT !.text = @ \o HeaderText(width, height)]
          /\ pc' = "for_y" /\ err' = err
       \/ /\ Raise("write")
          /\ UNCHANGED icon_ppm
    /\ UNCHANGED << icon_png, prior, writable, height, width,
                    x, y, rbga, reads, written >>

\* line 11: for y in range(height)
ForY ==
    /\ pc = "for_y"
    /\ IF y + 1 < height
       THEN y' = y + 1 /\ x' = -1 /\ pc' = "for_x"
       ELSE pc' = "done" /\ UNCHANGED << x, y >>
    /\ UNCHANGED << icon_png, icon_ppm, prior, writable, err, height, width,
                    rbga, reads, written >>

\* line 12: for x in range(width)
ForX ==
    /\ pc = "for_x"
    /\ IF x + 1 < width
       THEN x' = x + 1 /\ pc' = "read"
       ELSE pc' = "for_y" /\ UNCHANGED x
    /\ UNCHANGED << icon_png, icon_ppm, prior, writable, err, height, width,
                    y, rbga, reads, written >>

\* line 13: rbga = pixels[x, y]
ReadPixel ==
    /\ pc = "read"
    /\ reads' = Append(reads, << x, y >>)
    /\ IF InRange(icon_png, x, y)
       THEN rbga' = icon_png.data[<< x, y >>] /\ pc' = "write" /\ err' = err
       ELSE Raise("index") /\ UNCHANGED rbga
    /\ UNCHANGED << icon_png, icon_ppm, prior, writable, height, width,
                    x, y, written >>

\* line 15: outfile.write(f"{rbga[2]} {rbga[0]} {rbga[1]} {rbga[3]}\n"); the
\* f-string is evaluated first, so a short tuple raises before anything is
\* written.
WritePixel ==
    /\ pc = "write"
    /\ IF ~Subscriptable(rbga)
       THEN Raise("channel") /\ UNCHANGED << icon_ppm, written >>
       ELSE \/ /\ icon_ppm' = [icon_ppm EXCEPT !.text = @ \o PixelText(rbga)]
               /\ written' = Append(written, << x, y >>)
               /\ pc' = "for_x" /\ err' = err
            \/ /\ Raise("write")
               /\ UNCHANGED << icon_ppm, written >>
    /\ UNCHANGED << icon_png, prior, writable, height, width,
                    x, y, rbga, reads >>

Next ==
    \/ OpenImage
    \/ Load
    \/ OpenOut
    \/ Unpack
    \/ WriteHeader
    \/ ForY
    \/ ForX
    \/ ReadPixel
    \/ WritePixel

Spec == Init /\ [][Next]_vars

\* ------------------------------------------------- reading the output text
Text == icon_ppm.text

\* s.split(sep): the pieces between separators (the last one may be empty).
RECURSIVE SplitFrom(_, _, _, _, _)
SplitFrom(s, sep, i, piece, done) ==
    IF i > Len(s) THEN Append(done, piece)
    ELSE IF s[i] = sep THEN SplitFrom(s, sep, i + 1, << >>, Append(done, piece))
    ELSE SplitFrom(s, sep, i + 1, Append(piece, s[i]), done)

Split(s, sep) == SplitFrom(s, sep, 1, << >>, << >>)

\* The terminated lines of a text, and what follows the last terminator.
Lines(s) == SubSeq(Split(s, "\n"), 1, Len(Split(s, "\n")) - 1)
Partial(s) == Split(s, "\n")[Len(Split(s, "\n"))]
Fields(line) == Split(line, " ")

Terminated == pc \in { "done", "error" }
\* The destination was opened (created or truncated) by this run.
Opened == pc \notin { "open_image", "load", "open_out" } /\ err \notin { "decode", "open" }
\* The run was stopped by the destination (not writable, disk full).
DestinationError == err \in { "open", "write" }
Good(n) == icon_png.kind = "ok" /\ icon_png.bands = n
PixelAt(c) == icon_png.data[c]

\* ------------------------------------------------------------------ claims

\* C1: for every 4-band image of true width W and height H the run completes
\* and the output then has exactly 2 + W*H lines.
C1_LineCount ==
    (Good(4) /\ Terminated /\ ~DestinationError) =>
        /\ pc = "done"
        /\ Len(Lines(Text)) = 2 + TrueW * TrueH
        /\ Partial(Text) = << >>

\* C2: once the header is written, line 2 of the output is "W H": the true
\* width, one space, the true height.
C2_DimensionLine ==
    (Opened /\ Len(Lines(Text)) >= 2) =>
        Lines(Text)[2] = Str(TrueW) \o << " " >> \o Str(TrueH)

\* C3: the line written for a pixel (r, g, b, a) is exactly "b r g".
C3_PixelLine ==
    Good(4) =>
        \A k \in 1..Len(written) :
            Lines(Text)[2 + k] =
                Str(PixelAt(written[k])[3]) \o << " " >> \o
                Str(PixelAt(written[k])[1]) \o << " " >> \o
                Str(PixelAt(written[k])[2])

\* C4: the alpha value is never written: every pixel line of the output has
\* exactly three fields.
C4_NoAlpha ==
    Opened =>
        \A k \in 3..Len(Lines(Text)) : Len(Fields(Lines(Text)[k])) = 3

\* C5: pixel lines come in row-major order over the true coordinates: the
\* k-th pixel line (from 0) is the pixel at (k mod W, k div W), and a run
\* that is not stopped by the destination writes each pixel exactly once.
C5_RowMajor ==
    Good(4) =>
        /\ \A k \in 1..Len(written) :
               written[k] = << (k - 1) % TrueW, (k - 1) \div TrueW >>
        /\ (Terminated /\ ~DestinationError) => Len(written) = TrueW * TrueH

\* C6: a missing or undecodable input ends the run in a decode error before
\* the destination is opened: icon.ppm is neither created nor truncated.
C6_DecodeFailure ==
    icon_png.kind # "ok" =>
        /\ pc \in { "open_image", "load", "error" }
        /\ icon_ppm = prior
        /\ Terminated => err = "decode"

\* C7: a 3-band image fails at the first pixel visited with an indexing
\* error on the tuple; the output then holds the two header lines and no
\* pixel line, whole or partial.
C7_ThreeChannel ==
    Good(3) =>
        /\ written = << >>
        /\ pc # "done" /\ err # "index"
        /\ (Terminated /\ ~DestinationError) => err = "channel"
        /\ err = "channel" =>
              /\ reads = << << 0, 0 >> >>
              /\ Len(Lines(Text)) = 2
              /\ Lines(Text)[1] = << "P", "3" >>
              /\ Partial(Text) = << >>

\* C8: the run stops at the first error: the step that raises leaves the
\* output as it was, nothing happens after it, and an opened output is then
\* empty or the header followed by whole pixel lines.
C8_StopsAtFirstError ==
    /\ [][ err' # "none" =>
             /\ icon_ppm' = icon_ppm
             /\ err # "none" => UNCHANGED vars ]_vars
    /\ []( (err # "none" /\ Opened) =>
             /\ Partial(Text) = << >>
             /\ Len(Lines(Text)) \in { 0, 2 + Len(written) } )

\* C9: the header comes first: before any pixel is read or written the
\* output starts with the line "P3" and then a line holding the image's two
\* dimensions, and every pixel line comes after them.
C9_HeaderFirst ==
    /\ (pc \in { "open_image", "load", "open_out", "unpack", "header" }
           \/ Text = << >>)
          => (reads = << >> /\ written = << >>)
    /\ (Opened /\ Text # << >>) =>
          /\ Lines(Text)[1] = << "P", "3" >>
          /\ Fields(Lines(Text)[2]) \in { << Str(TrueW), Str(TrueH) >>,
                                          << Str(TrueH), Str(TrueW) >> }
          /\ Len(Lines(Text)) = 2 + Len(written)

\* C10: every access pixels[x, y] of a 4-band image is in bounds, so no
\* out-of-range error occurs and a completed run made exactly W*H reads.
C10_InBounds ==
    Good(4) =>
        /\ \A k \in 1..Len(reads) : InRange(icon_png, reads[k][1], reads[k][2])
        /\ err # "index"
        /\ pc = "done" => Len(reads) = TrueW * TrueH

\* --------------------------------------------------------------- witnesses
C6_Witness ==
    /\ icon_png.kind = "truncated" /\ pc = "error" /\ err = "decode"
    /\ prior.exists /\ prior.text # << >> /\ writable

C7_Witness ==
    /\ Good(3) /\ pc = "error" /\ err = "channel"
    /\ TrueW # TrueH /\ Len(Lines(Text)) = 2

C8_Witness ==
    /\ pc = "error" /\ err = "index"
    /\ Len(written) >= 2 /\ Len(Lines(Text)) = 2 + Len(written)

C9_Witness ==
    /\ pc = "done" /\ TrueW = 2 /\ TrueH = 2
    /\ Len(written) = 4 /\ Lines(Text)[1] = << "P", "3" >>

====
